---- MODULE Spec2Model ----
(***************************************************************************)
(* The request relay of server.js: the middleware chain                    *)
(*   cors -> helmet -> express.json -> rate limiter (/api/) -> routes      *)
(*   -> error-handling middleware                                          *)
(* and the three routes /api/health, /api/translate and /api/models.       *)
(* One action runs the synchronous part of a request (up to its response   *)
(* or up to the awaited upstream call), one resumes a suspended handler    *)
(* with the upstream's outcome, one lets a client's rate-limit window      *)
(* elapse.                                                                 *)
(***************************************************************************)
EXTENDS Integers, Sequences, FiniteSets, Bags, TLC

VARIABLES
    env,        \* process.env.GROQ_API_KEY, an optional string
    hits,       \* the limiter's store: client key -> requests counted in its window
    pending,    \* bag of handlers suspended at `await groq...`
    res,        \* the response the latest step sent, NoResponse if it sent none
    sent,       \* per client: requests received in the current window
    reached,    \* per client: requests that reached the limiter in the current window
    handled     \* per client: requests passed on to the routes in the current window

vars == <<env, hits, pending, res, sent, reached, handled>>

----------------------------------------------------------------------------
(* Bounds of the model *)

MaxPending == 2      \* handlers suspended at the upstream call at one time (SpecConc)
MaxBurst == 2        \* requests per client and window, but for one client at a time
MaxDenied == 1       \* requests per client and window that stop before the limiter (SpecRate)
MaxOver == 2         \* requests per client and window past the limiter's max

(* Program constants *)

max == 100                       \* rateLimit({ max: 100 })
optionsSuccessStatus == 200      \* cors({ optionsSuccessStatus: 200 })

----------------------------------------------------------------------------
(* JavaScript values: an optional value is <<>> (undefined) or <<v>> *)

Absent == <<>>
Some(v) == <<v>>

\* !x for x undefined or a string
Falsy(o) == o = Absent \/ o[1] = ""

\* String.prototype.includes
Includes(s, sub) ==
    \E i \in 1..(Len(s) - Len(sub) + 1) : SubSeq(s, i, i + Len(sub) - 1) = sub

RECURSIVE TrimStart(_)
TrimStart(s) ==
    IF Len(s) > 0 /\ SubSeq(s, 1, 1) = " " THEN TrimStart(SubSeq(s, 2, Len(s))) ELSE s

RECURSIVE TrimEnd(_)
TrimEnd(s) ==
    IF Len(s) > 0 /\ SubSeq(s, Len(s), Len(s)) = " "
    THEN TrimEnd(SubSeq(s, 1, Len(s) - 1)) ELSE s

\* String.prototype.trim
Trim(s) == TrimEnd(TrimStart(s))

----------------------------------------------------------------------------
(* 2. CORS middleware *)

\* mutant: the loopback address is left out of the pattern
corsOriginNoLoopback(origin) ==
    \/ Falsy(origin)
    \/ Includes(origin[1], "localhost")

\* the origin callback: TRUE is callback(null, true), FALSE is callback(new Error(...))
corsOrigin(origin) ==
    \/ Falsy(origin)
    \/ Includes(origin[1], "localhost")
    \/ Includes(origin[1], "127.0.0.1")

corsErrorMessage == "Not allowed by CORS"

----------------------------------------------------------------------------
(* 5. Rate limiting *)

rateLimitMessage == "error" :> "Too many requests, please try again later."

\* mutant: the max-th request is rejected already
limiterExceededAtMax(count) == count >= max

\* mutant: one request more than max is let through
limiterExceededLate(count) == count > max + 1

\* the limiter rejects a request once its client's count exceeds max
limiterExceeded(count) == count > max

\* app.use("/api/", limiter)
underApi(path) == Len(path) >= 5 /\ SubSeq(path, 1, 5) = "/api/"

----------------------------------------------------------------------------
(* Routes *)

languageNames ==
    "en-US" :> "English" @@ "es" :> "Spanish" @@ "fr" :> "French" @@
    "de" :> "German" @@ "zh" :> "Chinese" @@ "ar" :> "Arabic" @@
    "hi" :> "Hindi" @@ "pt" :> "Portuguese" @@ "ru" :> "Russian" @@
    "ja" :> "Japanese"

\* languageNames is an object literal: a property read that finds no own key
\* goes on to Object.prototype. The values are what a template literal makes of them.
objectPrototype ==
    "constructor" :> "function Object() { [native code] }" @@
    "toString" :> "function toString() { [native code] }" @@
    "__proto__" :> "[object Object]"

\* languageNames[code] || code
languageName(code) ==
    IF code \in DOMAIN languageNames THEN languageNames[code]
    ELSE IF code \in DOMAIN objectPrototype THEN objectPrototype[code]
    ELSE code

systemContent(sourceLanguage, targetLanguage) ==
    "You are a professional medical translator. Translate from " \o sourceLanguage
        \o " to " \o targetLanguage \o ". Return ONLY the translation."

\* the argument of groq.chat.completions.create
completionRequest(body) ==
    [system |-> systemContent(languageName(body.sourceLang[1]), languageName(body.targetLang[1])),
     user |-> body.text[1],
     model |-> "llama-3.3-70b-versatile",
     temperature |-> "0.3"]

\* mutant: only undefined counts as missing, the empty string does not
missingFieldsUndefinedOnly(body) ==
    body.text = Absent \/ body.sourceLang = Absent \/ body.targetLang = Absent

\* !text || !sourceLang || !targetLang
missingFields(body) == Falsy(body.text) \/ Falsy(body.sourceLang) \/ Falsy(body.targetLang)

\* mutant: an empty credential counts as configured
healthBodyDefinedOnly == "status" :> "OK" @@ "groqApiConfigured" :> (env # Absent)

\* res.json({ status: "OK", groqApiConfigured: !!process.env.GROQ_API_KEY })
healthBody == "status" :> "OK" @@ "groqApiConfigured" :> ~Falsy(env)

missingFieldsBody == "error" :> "Missing required fields"

\* chatCompletion.choices[0] throws a TypeError when choices is undefined
choicesThrows(completion) == completion.choices = Absent

typeErrorMessage == "Cannot read properties of undefined (reading '0')"

\* chatCompletion.choices[0]?.message?.content?.trim()
translatedText(completion) ==
    LET choices == completion.choices[1]
        first == IF Len(choices) = 0 THEN Absent ELSE Some(choices[1])
        message == IF first = Absent THEN Absent ELSE first[1].message
        content == IF message = Absent THEN Absent ELSE message[1].content
    IN  IF content = Absent THEN Absent ELSE Some(Trim(content[1]))

\* res.json({ translatedText, sourceLang, targetLang, model, usage }):
\* JSON.stringify leaves out a property whose value is undefined
translateBody(completion, sourceLang, targetLang) ==
    LET t == translatedText(completion)
        rest == "sourceLang" :> sourceLang @@ "targetLang" :> targetLang @@
                "model" :> completion.model @@ "usage" :> completion.usage
    IN  IF t = Absent THEN rest ELSE ("translatedText" :> t[1]) @@ rest

\* the catch of /api/translate
translateCatch(message) == "error" :> "Translation failed" @@ "details" :> message

\* the catch of /api/models
modelsCatch(message) == "error" :> message

modelsBody(data) == "models" :> data

----------------------------------------------------------------------------
(* Error handling middleware *)

errorStatus(message) == IF message = corsErrorMessage THEN 403 ELSE 500

errorBody(message) ==
    IF message = corsErrorMessage
    THEN "error" :> "CORS Error: Origin not allowed"
    ELSE "error" :> "Internal Server Error"

\* what express.json passes to next() for a body that does not parse
parseErrorMessage == "Unexpected end of JSON input"

----------------------------------------------------------------------------
(* The upstream service: what an awaited call can come back with *)

completionModel == "llama-3.3-70b-versatile"

Throw(message) == [kind |-> "throw", message |-> message]

Completion(choices) ==
    [kind |-> "return", choices |-> choices, model |-> completionModel,
     usage |-> [total_tokens |-> "42"]]

ModelList(data) == [kind |-> "return", data |-> data]

ThrownMessages == {"401 Invalid API Key", "Connection error."}

\* the shapes of a completion: choices missing, choices empty, message missing,
\* content missing, content present
ChoicesShapes ==
    {Absent,
     Some(<<>>),
     Some(<<[message |-> Absent]>>),
     Some(<<[message |-> Some([content |-> Absent])]>>),
     Some(<<[message |-> Some([content |-> Some("  Hello. ")])]>>)}

ChatOutcomes ==
    {Throw(m) : m \in ThrownMessages} \cup {Completion(ch) : ch \in ChoicesShapes}

ListOutcomes ==
    {Throw(m) : m \in ThrownMessages} \cup {ModelList(<<completionModel, "gemma2-9b-it">>)}

----------------------------------------------------------------------------
(* Requests and responses *)

NoBody == [malformed |-> FALSE, text |-> Absent, sourceLang |-> Absent, targetLang |-> Absent]

MalformedBody == [NoBody EXCEPT !.malformed = TRUE]

Body(text, sourceLang, targetLang) ==
    [malformed |-> FALSE, text |-> text, sourceLang |-> sourceLang, targetLang |-> targetLang]

Req(method, path, origin, body) ==
    [method |-> method, path |-> path, origin |-> origin, body |-> body]

NoRequest == Req("", "", Absent, NoBody)

NoCall == [calls |-> 0, prompt |-> Absent, outcome |-> Absent]

Called(prompt, outcome) == [calls |-> 1, prompt |-> prompt, outcome |-> Some(outcome)]

\* a response: the request it answers, status and JSON body, whether helmet's
\* headers are on it, the route handler that ran, the upstream calls made for the
\* request with the argument and outcome of the call, and, for a response the
\* chain sends without suspending, the request's place among its client's requests
\* of the window (nth) and in the limiter's count (hit, 0 when the limiter never saw it)
Response(client, req, status, json, helmet, handler, call, nth, hit) ==
    [client |-> client, req |-> req, status |-> status, json |-> json,
     helmet |-> helmet, handler |-> handler, calls |-> call.calls,
     prompt |-> call.prompt, outcome |-> call.outcome, nth |-> nth, hit |-> hit]

NoResponse == Response("", NoRequest, 0, <<>>, FALSE, "none", NoCall, 0, 0)

\* a handler suspended at its await
Suspended(client, req, handler, prompt) ==
    [client |-> client, req |-> req, handler |-> handler, prompt |-> prompt]

----------------------------------------------------------------------------
(* The middleware chain, up to the response or the await *)

\* the stage at which the chain stops for a request whose client's count,
\* this request included, would be `count`
Stage(req, count) ==
    IF ~corsOrigin(req.origin) THEN "cors-denied"
    ELSE IF req.method = "OPTIONS" THEN "preflight"
    ELSE IF req.body.malformed THEN "parse-failed"
    ELSE IF underApi(req.path) /\ limiterExceeded(count) THEN "limited"
    ELSE IF req.method = "GET" /\ req.path = "/api/health" THEN "health"
    ELSE IF req.method = "POST" /\ req.path = "/api/translate" THEN "translate"
    ELSE IF req.method = "GET" /\ req.path = "/api/models" THEN "models"
    ELSE "not-found"

\* helmet comes second: its headers are on a response only if cors called next()
helmetRan(stage) == stage \notin {"cors-denied", "preflight"}

\* the limiter counts a request only if cors, helmet and express.json called next()
limiterRan(req, stage) ==
    underApi(req.path) /\ stage \notin {"cors-denied", "preflight", "parse-failed"}

routeRan(stage) == stage \in {"health", "translate", "models"}

\* the request is answered without an upstream call
Answer(c, req, stage, nth, hit) ==
    LET R(status, json, handler) ==
            Response(c, req, status, json, helmetRan(stage), handler, NoCall, nth, hit)
    IN  CASE stage = "cors-denied" ->
                R(errorStatus(corsErrorMessage), errorBody(corsErrorMessage), "none")
          [] stage = "preflight" -> R(optionsSuccessStatus, <<>>, "none")
          [] stage = "parse-failed" ->
                R(errorStatus(parseErrorMessage), errorBody(parseErrorMessage), "none")
          [] stage = "limited" -> R(429, rateLimitMessage, "none")
          [] stage = "health" -> R(200, healthBody, "health")
          [] stage = "translate" -> R(400, missingFieldsBody, "translate")
          [] stage = "not-found" -> R(404, <<>>, "none")

\* the handler reaches its await
suspends(req, stage) ==
    \/ stage = "translate" /\ ~missingFields(req.body)
    \/ stage = "models"

Request(c, req) ==
    LET stage == Stage(req, hits[c] + 1)
        counted == limiterRan(req, stage)
        nth == sent[c] + 1
        hit == IF counted THEN hits[c] + 1 ELSE 0
    IN  /\ sent' = [sent EXCEPT ![c] = nth]
        /\ hits' = IF counted THEN [hits EXCEPT ![c] = hit] ELSE hits
        /\ reached' = IF counted THEN [reached EXCEPT ![c] = @ + 1] ELSE reached
        /\ handled' = IF routeRan(stage) THEN [handled EXCEPT ![c] = @ + 1] ELSE handled
        /\ IF suspends(req, stage)
           THEN /\ pending' = pending (+) SetToBag({Suspended(c, req, stage,
                        IF stage = "translate" THEN Some(completionRequest(req.body))
                        ELSE Absent)})
                /\ res' = NoResponse
           ELSE /\ res' = Answer(c, req, stage, nth, hit)
                /\ pending' = pending
        /\ UNCHANGED env

\* the awaited call comes back: the rest of the handler runs
Resume(p, outcome) ==
    LET R(status, json) ==
            Response(p.client, p.req, status, json, TRUE, p.handler,
                     Called(p.prompt, outcome), 0, 0)
    IN  IF p.handler = "translate"
        THEN IF outcome.kind = "throw" THEN R(500, translateCatch(outcome.message))
             ELSE IF choicesThrows(outcome) THEN R(500, translateCatch(typeErrorMessage))
             ELSE R(200, translateBody(outcome, p.req.body.sourceLang[1],
                                       p.req.body.targetLang[1]))
        ELSE IF outcome.kind = "throw" THEN R(500, modelsCatch(outcome.message))
             ELSE R(200, modelsBody(outcome.data))

Outcomes(p) == IF p.handler = "translate" THEN ChatOutcomes ELSE ListOutcomes

UpstreamReturn(p, outcome) ==
    /\ BagIn(p, pending)
    /\ pending' = pending (-) SetToBag({p})
    /\ res' = Resume(p, outcome)
    /\ UNCHANGED <<env, hits, sent, reached, handled>>

\* the client's window (windowMs) is over: its count starts again
WindowElapse(c) ==
    /\ sent[c] > 0
    /\ hits' = [hits EXCEPT ![c] = 0]
    /\ sent' = [sent EXCEPT ![c] = 0]
    /\ reached' = [reached EXCEPT ![c] = 0]
    /\ handled' = [handled EXCEPT ![c] = 0]
    /\ res' = NoResponse
    /\ UNCHANGED <<env, pending>>

----------------------------------------------------------------------------
(* Inputs *)

Clients == {"10.0.0.1", "10.0.0.2"}

ApiKeys == {Absent, Some(""), Some("gsk_live")}

AllowedOrigins ==
    {Absent, Some(""), Some("http://localhost:5173"), Some("http://127.0.0.1:5500")}

DeniedOrigins == {Some("https://app.example"), Some("null")}

Origins == AllowedOrigins \cup DeniedOrigins

Routes ==
    {<<"GET", "/api/health">>, <<"POST", "/api/translate">>, <<"GET", "/api/models">>,
     <<"OPTIONS", "/api/translate">>, <<"GET", "/api/translate">>, <<"GET", "/">>}

SomeText == "Me duele la cabeza"

\* bodies of /api/translate: every way of leaving fields out, and known,
\* unknown and inherited language codes
TranslateBodies ==
    {Body(t, s, g) : t \in {Absent, Some(""), Some(SomeText)},
                     s \in {Absent, Some(""), Some("es")},
                     g \in {Absent, Some(""), Some("en-US")}}
    \cup {Body(Some(SomeText), Some(s), Some(g)) :
            s \in {"es", "xx", "constructor"}, g \in {"en-US", "ja", "zz", "__proto__"}}

\* every route from every origin; a body that does not parse, from an origin
\* that is allowed and one that is not; every translate body
Requests ==
    {Req(r[1], r[2], o, NoBody) : r \in Routes, o \in Origins}
    \cup {Req(r[1], r[2], o, MalformedBody) :
            r \in {<<"GET", "/api/health">>, <<"POST", "/api/translate">>},
            o \in {Absent, Some("https://app.example")}}
    \cup {Req("POST", "/api/translate", Some("http://localhost:5173"), b) :
            b \in TranslateBodies}

ValidBody == Body(Some(SomeText), Some("es"), Some("en-US"))

\* the requests of the long runs: one that stops at each stage
RateRequests ==
    {Req("GET", "/api/health", Absent, NoBody),
     Req("GET", "/api/health", Some("https://app.example"), NoBody),
     Req("POST", "/api/translate", Absent, MalformedBody),
     Req("POST", "/api/translate", Some("http://localhost:5173"), ValidBody)}

ConcRequests ==
    {Req("GET", "/api/health", Absent, NoBody),
     Req("POST", "/api/translate", Absent, ValidBody)}

----------------------------------------------------------------------------
(* Specifications *)

Init ==
    /\ env \in ApiKeys
    /\ hits = [c \in Clients |-> 0]
    /\ sent = [c \in Clients |-> 0]
    /\ reached = [c \in Clients |-> 0]
    /\ handled = [c \in Clients |-> 0]
    /\ pending = EmptyBag
    /\ res = NoResponse

\* c may send one more request: only one client at a time goes past MaxBurst
\* requests in its window, and none goes further than MaxOver past the limiter's max
MayBurst(c) ==
    /\ hits[c] < max + MaxOver
    /\ sent[c] < MaxBurst \/ \A d \in Clients \ {c} : sent[d] <= MaxBurst

\* no other client has sent a request in its current window
Alone(c) == \A d \in Clients \ {c} : sent[d] = 0

\* req of c is counted by the limiter, or c has stopped short of it fewer than
\* MaxDenied times in this window
MayDeny(c, req) ==
    \/ limiterRan(req, Stage(req, hits[c] + 1))
    \/ sent[c] - reached[c] < MaxDenied

\* every kind of request, in short windows, one request in flight at a time
Next ==
    \/ \E c \in Clients, req \in Requests :
          /\ sent[c] < MaxBurst
          /\ Alone(c)
          /\ pending = EmptyBag
          /\ Request(c, req)
    \/ \E p \in BagToSet(pending) : \E outcome \in Outcomes(p) : UpstreamReturn(p, outcome)
    \/ \E c \in Clients : WindowElapse(c)

Spec == Init /\ [][Next]_vars

\* windows long enough to pass the limiter's max, one request in flight at a time
NextRate ==
    \/ \E c \in Clients, req \in RateRequests :
          /\ hits[c] < max + MaxOver
          /\ Alone(c)
          /\ MayDeny(c, req)
          /\ pending = EmptyBag
          /\ Request(c, req)
    \/ \E p \in BagToSet(pending) : \E outcome \in Outcomes(p) : UpstreamReturn(p, outcome)
    \/ \E c \in Clients : WindowElapse(c)

SpecRate == Init /\ [][NextRate]_vars

ConcOutcomes(p) ==
    IF p.handler = "translate"
    THEN {Throw("Connection error."), Completion(Some(<<>>))}
    ELSE ListOutcomes

\* requests arriving while handlers are suspended at the upstream call
NextConc ==
    \/ \E c \in Clients, req \in ConcRequests :
          /\ MayBurst(c)
          /\ BagCardinality(pending) < MaxPending
          /\ Request(c, req)
    \/ \E p \in BagToSet(pending) : \E outcome \in ConcOutcomes(p) :
          UpstreamReturn(p, outcome)
    \/ \E c \in Clients : WindowElapse(c)

SpecConc == Init /\ [][NextConc]_vars

----------------------------------------------------------------------------
(* Properties *)

IsResponse == res # NoResponse

IsHealth(req) == req.method = "GET" /\ req.path = "/api/health"

Empty(o) == o = Absent \/ o = Some("")

\* C1 as stated: of a client's requests to /api/ in one window, whatever they are,
\* the first 100 are not answered with the rate-limit error and the 101st is,
\* with status 429 and the fixed body, and no route handler runs for it.
C1_AnyRequest ==
    /\ res.nth \in 1..max => res.status # 429
    /\ res.nth = max + 1 =>
          res.status = 429 /\ res.json = rateLimitMessage /\ res.handler = "none"

\* C1, amended: of a client's requests to /api/ that the limiter counts in one
\* window (the origin is let through, the request is no preflight, the body
\* parses), the first 100 are not answered with the rate-limit error, the 101st
\* and later ones are answered 429 with the fixed body before any route handler
\* and any upstream call; a request that stops before the limiter is not counted
\* and is never answered 429.
C1_CountedRequests ==
    /\ res.hit \in 1..max => res.status # 429
    /\ res.hit > max =>
          /\ res.status = 429
          /\ res.json = ("error" :> "Too many requests, please try again later.")
          /\ res.handler = "none"
          /\ res.calls = 0
    /\ res.status = 429 => res.hit > max
    /\ \A c \in Clients : reached[c] > max => handled[c] = max

C1_Witness ==
    /\ res.hit = max + 1
    /\ res.status = 429
    /\ res.nth > res.hit

\* C2: a request that reaches the translate handler with text, sourceLang or
\* targetLang missing or falsy is answered 400 {error: "Missing required fields"},
\* and no upstream call is made for it.
C2_MissingFields ==
    LET Lacks(body) == Empty(body.text) \/ Empty(body.sourceLang) \/ Empty(body.targetLang)
    IN  /\ res.handler = "translate" /\ Lacks(res.req.body) =>
              /\ res.status = 400
              /\ res.json = ("error" :> "Missing required fields")
              /\ res.calls = 0
        /\ \A p \in BagToSet(pending) : p.handler = "translate" => ~Lacks(p.req.body)

C2_Witness ==
    /\ res.handler = "translate"
    /\ res.status = 400
    /\ res.req.body.text = Some(SomeText)
    /\ res.req.body.sourceLang = Some("es")
    /\ res.req.body.targetLang = Some("")

MatchesPattern(o) == Includes(o[1], "localhost") \/ Includes(o[1], "127.0.0.1")

CorsRejection ==
    /\ res.status = 403
    /\ res.json = ("error" :> "CORS Error: Origin not allowed")
    /\ res.handler = "none"
    /\ res.calls = 0

\* C3 as stated: a request whose origin is present and contains neither
\* "localhost" nor "127.0.0.1" is denied (no handler, no upstream call, 403 with
\* the CORS error body); a request with no origin or a matching one passes.
C3_PresentOrigin ==
    /\ IsResponse =>
          IF res.req.origin # Absent /\ ~MatchesPattern(res.req.origin)
          THEN CorsRejection
          ELSE res.status # 403
    /\ \A p \in BagToSet(pending) :
          p.req.origin = Absent \/ MatchesPattern(p.req.origin)

\* C3, amended: a request whose origin is present, not the empty string, and
\* contains neither "localhost" nor "127.0.0.1" is denied (no handler, no
\* upstream call, 403 with the CORS error body); a request with no origin, an
\* empty one or a matching one passes.
C3_NonEmptyOrigin ==
    /\ IsResponse =>
          IF ~Empty(res.req.origin) /\ ~MatchesPattern(res.req.origin)
          THEN CorsRejection
          ELSE res.status # 403
    /\ \A p \in BagToSet(pending) :
          Empty(p.req.origin) \/ MatchesPattern(p.req.origin)

C3_Witness ==
    /\ res.req.origin = Some("null")
    /\ res.req.path = "/api/translate"
    /\ res.status = 403

\* C4: a request whose body is malformed JSON reaches no route handler, is
\* answered with a 4xx status and causes no upstream call.
C4_MalformedBody ==
    /\ IsResponse /\ res.req.body.malformed =>
          /\ res.status \in 400..499
          /\ res.handler = "none"
          /\ res.calls = 0
    /\ \A p \in BagToSet(pending) : ~p.req.body.malformed

\* C5: when the upstream call throws, /api/translate and /api/models answer 500
\* with a JSON object that has an error field and a details field and carries the
\* thrown message, after exactly one upstream call.
C5_UpstreamThrows ==
    res.outcome # Absent /\ res.outcome[1].kind = "throw" =>
        /\ res.status = 500
        /\ "error" \in DOMAIN res.json
        /\ "details" \in DOMAIN res.json
        /\ \E k \in DOMAIN res.json : res.json[k] = res.outcome[1].message
        /\ res.calls = 1

\* C6 as stated: every health request is answered 200
\* {status: "OK", groqApiConfigured: <credential set>} without an upstream call.
C6_EveryHealthRequest ==
    IsResponse /\ IsHealth(res.req) =>
        /\ res.status = 200
        /\ res.json = ("status" :> "OK" @@ "groqApiConfigured" :> ~Empty(env))
        /\ res.calls = 0

\* C6, amended: every health request that reaches the health handler (the gate
\* lets its origin through, its body parses, and the limiter has counted no more
\* than 100 requests of its client in the window) is answered 200
\* {status: "OK", groqApiConfigured: <credential set>}, whatever came before and
\* whatever the credential; a health request beyond the 100 is answered 429 and
\* one from a denied origin 403; no health request calls the upstream.
C6_AdmittedHealthRequest ==
    /\ IsResponse /\ IsHealth(res.req) =>
          /\ res.calls = 0
          /\ IF ~(Empty(res.req.origin) \/ MatchesPattern(res.req.origin)) THEN res.status = 403
             ELSE IF res.req.body.malformed THEN res.status # 200
             ELSE IF res.hit > max THEN res.status = 429
             ELSE /\ res.status = 200
                  /\ res.json = ("status" :> "OK" @@ "groqApiConfigured" :> ~Empty(env))
    /\ \A p \in BagToSet(pending) : ~IsHealth(p.req)

C6_Witness ==
    /\ IsHealth(res.req)
    /\ res.status = 200
    /\ res.hit = max
    /\ env = Some("")

\* the name C7 expects for a code: the table's entry, else the code itself
ExpectedName(code) ==
    CASE code = "en-US" -> "English" [] code = "es" -> "Spanish"
      [] code = "fr" -> "French" [] code = "de" -> "German"
      [] code = "zh" -> "Chinese" [] code = "ar" -> "Arabic"
      [] code = "hi" -> "Hindi" [] code = "pt" -> "Portuguese"
      [] code = "ru" -> "Russian" [] code = "ja" -> "Japanese"
      [] OTHER -> code

ExpectedSystem(body) ==
    "You are a professional medical translator. Translate from "
        \o ExpectedName(body.sourceLang[1]) \o " to " \o ExpectedName(body.targetLang[1])
        \o ". Return ONLY the translation."

\* C7: the language names in the upstream system message are the table's entries
\* for the ten keys and the codes themselves for every other code, and a
\* successful response echoes sourceLang and targetLang as received.
C7_LanguageNames ==
    /\ \A p \in BagToSet(pending) :
          p.handler = "translate" => p.prompt[1].system = ExpectedSystem(p.req.body)
    /\ res.handler = "translate" /\ res.status = 200 =>
          /\ res.prompt[1].system = ExpectedSystem(res.req.body)
          /\ res.json["sourceLang"] = res.req.body.sourceLang[1]
          /\ res.json["targetLang"] = res.req.body.targetLang[1]

\* C8: helmet's headers are on every response the server sends.
C8_SecurityHeaders == IsResponse => res.helmet

LacksContent(completion) ==
    \/ completion.choices = Absent
    \/ completion.choices = Some(<<>>)
    \/ completion.choices = Some(<<[message |-> Absent]>>)
    \/ completion.choices = Some(<<[message |-> Some([content |-> Absent])]>>)

\* C9: when the completion call returns a response without the first choice's
\* message content (choices missing or empty, message missing, content missing),
\* /api/translate answers 200 without translatedText and with sourceLang,
\* targetLang, model and usage.
C9_LacksContent ==
    (/\ res.handler = "translate"
     /\ res.outcome # Absent
     /\ res.outcome[1].kind = "return"
     /\ LacksContent(res.outcome[1])) =>
        /\ res.status = 200
        /\ DOMAIN res.json = {"sourceLang", "targetLang", "model", "usage"}
        /\ res.json["sourceLang"] = res.req.body.sourceLang[1]
        /\ res.json["targetLang"] = res.req.body.targetLang[1]
        /\ res.json["model"] = res.outcome[1].model
        /\ res.json["usage"] = res.outcome[1].usage

\* C10: with handlers suspended at the upstream call and requests arriving in
\* between, each client's counter equals the number of its requests that reached
\* the limiter in the current window, at most max of them reach a route handler,
\* a suspended handler does not keep a request from being processed, and a step
\* changes the counter only of the client whose request or window it is.
C10_Counters ==
    /\ [](/\ \A c \in Clients : hits[c] = reached[c] /\ handled[c] <= max
          /\ \A c \in Clients :
                pending # EmptyBag =>
                    ENABLED Request(c, Req("GET", "/api/health", Absent, NoBody)))
    /\ [][\A c \in Clients :
            hits'[c] # hits[c] =>
                /\ \A d \in Clients \ {c} : hits'[d] = hits[d]
                /\ sent'[c] # sent[c]]_vars

C10_Witness ==
    /\ \E c \in Clients : hits[c] = max + 1 /\ handled[c] = max
    /\ \E c \in Clients : \E p, q \in BagToSet(pending) :
          p.client = c /\ q.client # c

====
